---- MODULE Spec2Model ----
(***************************************************************************)
(* Model of the yt2tg repository: the two feed monitors (yt-monitor.py and *)
(* the FeedMonitor class of yt2tg.py) with their shared watermark file     *)
(* last_seen.json, and the uploader yt2tglocal.py with its temporary       *)
(* directory cleanup loop.                                                 *)
(*                                                                         *)
(* A behaviour is a deployment of one of the three scripts (prog), run     *)
(* again and again.  A run is cut at its suspension points: the start-up   *)
(* segment (configuration, feed fetch, watermark load, new-item            *)
(* computation), one step per external call of the processing loop, and    *)
(* the final write.  The external call of yt-monitor.py's loop runs        *)
(* yt2tg.py as a child process in the same directory: the child is a       *)
(* whole FeedMonitor run on the same last_seen.json, cut at its own        *)
(* suspension points.  External collaborators (feed, download tool,        *)
(* messaging endpoint, file system) are nondeterministic inputs.           *)
(***************************************************************************)
EXTENDS Integers, Sequences, FiniteSets, TLC

(***************************************************************************)
(* Bounds of the model.                                                    *)
(***************************************************************************)
MaxVideos == 2
MaxWall == 2

Videos == 1..MaxVideos
Walls == 1..MaxWall
Offsets == {0, 1}

(***************************************************************************)
(* Timestamps.  An ISO-8601 string with offset, and the aware datetime it  *)
(* parses to, is a wall-clock reading with a UTC offset; two aware         *)
(* datetimes compare by the instant they denote.  A string without offset  *)
(* (or a date alone) parses to a naive datetime, one whose tzinfo is None: *)
(* comparing it with an aware one raises TypeError.                        *)
(***************************************************************************)
FeedStamps == [wall : Walls, off : Offsets, aware : {TRUE}]

\* What datetime.fromisoformat returns for a string without offset.
NaiveStamps == [wall : Walls, off : {0}, aware : {FALSE}]

Instant(ts) == ts.wall - ts.off

Later(a, b) == Instant(a) > Instant(b)

astimezone_utc(ts) == [wall |-> Instant(ts), off |-> 0, aware |-> TRUE]

replace_tzinfo_utc(ts) == [wall |-> ts.wall, off |-> 0, aware |-> TRUE]

(***************************************************************************)
(* The watermark file last_seen.json.                                      *)
(***************************************************************************)
AbsentFile == [kind |-> "absent", last_published |-> <<>>]
NotJsonFile == [kind |-> "notjson", last_published |-> <<>>]
NoKeyFile == [kind |-> "nokey", last_published |-> <<>>]
NotIsoFile == [kind |-> "notiso", last_published |-> <<>>]
Malformed == {NotJsonFile, NoKeyFile, NotIsoFile}

JsonFile(ts) == [kind |-> "valid", last_published |-> <<ts>>]

\* yt-monitor.py load_last_seen: no exception handler.
monitor_load_last_seen(file) ==
    IF file.kind = "absent"
    THEN [raised |-> FALSE, value |-> <<>>]
    ELSE IF file.kind = "valid"
    THEN [raised |-> FALSE,
          value |-> <<replace_tzinfo_utc(file.last_published[1])>>]
    ELSE [raised |-> TRUE, value |-> <<>>]

\* yt2tg.py FeedMonitor.load_last_seen: any exception is logged, None returned.
yt2tg_load_last_seen(file) ==
    IF file.kind = "valid"
    THEN [raised |-> FALSE, value |-> <<file.last_published[1]>>]
    ELSE [raised |-> FALSE, value |-> <<>>]

(***************************************************************************)
(* The new-item computation.                                               *)
(***************************************************************************)
IsNew(last_seen_, published) ==
    last_seen_ = <<>> \/ Later(published, last_seen_[1])

RECURSIVE InsertByPublished(_, _)
InsertByPublished(x, s) ==
    IF s = <<>>
    THEN <<x>>
    ELSE IF Later(Head(s).published, x.published)
    THEN <<x>> \o s
    ELSE <<Head(s)>> \o InsertByPublished(x, Tail(s))

RECURSIVE SortStable(_)
SortStable(s) ==
    IF s = <<>>
    THEN <<>>
    ELSE InsertByPublished(s[Len(s)], SortStable(SubSeq(s, 1, Len(s) - 1)))

SortByPublished(s) == SortStable(s)

RECURSIVE Collect(_, _, _)
Collect(items, last_seen_, acc) ==
    IF items = <<>>
    THEN acc
    ELSE Collect(Tail(items), last_seen_,
                 IF IsNew(last_seen_, Head(items).published)
                 THEN Append(acc, Head(items))
                 ELSE acc)

\* yt-monitor.py: entries parsed with strptime(...).astimezone(utc).
MonitorItems(feed_entries, published_of) ==
    [i \in 1..Len(feed_entries) |->
        [id |-> feed_entries[i],
         published |-> astimezone_utc(published_of[feed_entries[i]])]]

\* yt2tg.py: entries parsed with datetime.fromisoformat, offset kept.
Yt2tgItems(feed_entries, published_of) ==
    [i \in 1..Len(feed_entries) |->
        [id |-> feed_entries[i], published |-> published_of[feed_entries[i]]]]

monitor_new_videos(feed_entries, published_of, last_seen_) ==
    SortByPublished(Collect(MonitorItems(feed_entries, published_of), last_seen_, <<>>))

yt2tg_new_videos(feed_entries, published_of, last_seen_) ==
    SortByPublished(Collect(Yt2tgItems(feed_entries, published_of), last_seen_, <<>>))

\* yt2tg.py line 100, "published > last_seen", for the first entry of the
\* feed: TypeError when last_seen is naive (published is aware).
TypeError(feed_entries, last_seen_) ==
    /\ feed_entries # <<>>
    /\ last_seen_ # <<>>
    /\ ~last_seen_[1].aware

\* "if not new_videos": the early exit of both monitors.
NothingToDo(nv) == nv = <<>>

(***************************************************************************)
(* State.                                                                  *)
(*   prog              the script this deployment runs                     *)
(*   pub               the published string of every video of the channel  *)
(*   store             the content of last_seen.json                       *)
(*   pc                "idle" between runs, else the position of the run:  *)
(*                     yt-monitor.py "loop", "wait" (on its child), "save";*)
(*                     yt2tg.py "run"; yt2tglocal.py "cleanup"             *)
(*   exit_code         <<>> while running, <<c>> once the process exited   *)
(*   config            which options the environment sets (this run)       *)
(*   bozo, entries, last_seen, new_videos, idx, newest_timestamp           *)
(*                     yt-monitor.py: feed.bozo, feed.entries, the loaded  *)
(*                     watermark (<<>> is None), the list being processed, *)
(*                     the loop position and the running maximum           *)
(*   fm_pc             the FeedMonitor process of yt2tg.py (run directly,  *)
(*                     or as the child of yt-monitor.py): "off", "loop",   *)
(*                     "upload", "exited"                                  *)
(*   fm_exit_code      its exit code, <<>> while it runs                   *)
(*   fm_bozo, fm_entries, fm_last_seen, fm_new_videos, fm_idx              *)
(*                     its feed, loaded watermark, list and loop position  *)
(*   start_store       the store when this run started                     *)
(*   uploaded_before   uploaded, as it was when this run started           *)
(*   write_failed      a watermark write of this run failed                *)
(*   log               the downloads and uploads started in this run, in   *)
(*                     order                                               *)
(*   run_ok            the items uploaded in this run                      *)
(*   run_failed        the items whose step failed in this run             *)
(*   uploaded          items uploaded and covered by a successful write    *)
(*   temp_dir, attempt, pending, rmtree_calls, sleeps, cleanup_log         *)
(*                     the uploader's cleanup loop                         *)
(***************************************************************************)
VARIABLES prog, pub, store, pc, exit_code, config,
          bozo, entries, last_seen, new_videos, idx, newest_timestamp,
          fm_pc, fm_exit_code, fm_bozo, fm_entries, fm_last_seen,
          fm_new_videos, fm_idx,
          start_store, uploaded_before, write_failed, log,
          run_ok, run_failed, uploaded,
          temp_dir, attempt, pending, rmtree_calls, sleeps, cleanup_log

feedvars == <<bozo, entries, last_seen, new_videos>>
loopvars == <<idx, newest_timestamp>>
fmvars == <<fm_pc, fm_exit_code, fm_bozo, fm_entries, fm_last_seen,
            fm_new_videos, fm_idx>>
histvars == <<start_store, uploaded_before, write_failed, log,
              run_ok, run_failed, uploaded>>
upvars == <<temp_dir, attempt, pending, rmtree_calls, sleeps, cleanup_log>>
vars == <<prog, pub, store, pc, exit_code, config, feedvars, loopvars, fmvars,
          histvars, upvars>>

Programs == {"monitor", "yt2tg", "uploader"}

Configs == [YOUTUBE_CHANNEL_ID : BOOLEAN, TELEGRAM_BOT_TOKEN : BOOLEAN,
            TELEGRAM_CHANNEL_ID : BOOLEAN]

FullConfig == [YOUTUBE_CHANNEL_ID |-> TRUE, TELEGRAM_BOT_TOKEN |-> TRUE,
               TELEGRAM_CHANNEL_ID |-> TRUE]

\* feed.entries: any order of any subset of the channel's videos.
Feeds == {f \in UNION {[1..n -> Videos] : n \in 0..MaxVideos} :
            \A i, j \in DOMAIN f : i # j => f[i] # f[j]}

\* The channel's videos, numbered in the order of their published strings.
Channels == {p \in [Videos -> FeedStamps] :
               \A v, w \in Videos :
                  v < w => \/ p[v].wall < p[w].wall
                           \/ p[v].wall = p[w].wall /\ p[v].off <= p[w].off}

\* No process has run yet.
NoRunYet ==
    /\ pc = "idle"
    /\ exit_code = <<>>
    /\ config = FullConfig
    /\ bozo = FALSE
    /\ entries = <<>>
    /\ last_seen = <<>>
    /\ new_videos = <<>>
    /\ idx = 1
    /\ newest_timestamp = <<>>
    /\ fm_pc = "off"
    /\ fm_exit_code = <<>>
    /\ fm_bozo = FALSE
    /\ fm_entries = <<>>
    /\ fm_last_seen = <<>>
    /\ fm_new_videos = <<>>
    /\ fm_idx = 1
    /\ start_store = store
    /\ uploaded_before = {}
    /\ write_failed = FALSE
    /\ log = <<>>
    /\ run_ok = {}
    /\ run_failed = {}
    /\ uploaded = {}
    /\ temp_dir = FALSE
    /\ attempt = 0
    /\ pending = <<>>
    /\ rmtree_calls = 0
    /\ sleeps = 0
    /\ cleanup_log = <<>>

\* Before the first run last_seen.json does not exist, or it holds what
\* something else left there: something unreadable, or a timestamp written
\* without offset.
Init ==
    /\ prog \in Programs
    /\ pub \in Channels
    /\ store \in {AbsentFile} \cup Malformed \cup {JsonFile(ts) : ts \in NaiveStamps}
    /\ NoRunYet

\* What every run of a monitor resets when the process starts.
Fresh(cfg) ==
    /\ config' = cfg
    /\ start_store' = store
    /\ uploaded_before' = uploaded
    /\ write_failed' = FALSE
    /\ log' = <<>>
    /\ run_ok' = {}
    /\ run_failed' = {}

Exit(code) ==
    /\ pc' = "idle"
    /\ exit_code' = <<code>>

\* What feedparser.parse returns: feed.bozo and feed.entries.
FeedResults == {[bozo |-> TRUE, entries |-> <<>>]} \cup
               {[bozo |-> FALSE, entries |-> es] : es \in Feeds}

\* What a write of last_seen.json (open(..., "w") and json.dump) does:
\*   "written"     the file holds the new record
\*   "open_failed" open raised: the file is as it was
\*   "truncated"   open emptied the file and the write raised (a full disk):
\*                 the file holds the beginning of the record, or nothing
WriteOutcomes == {"written", "open_failed", "truncated"}

write_last_seen(file, timestamp, w) ==
    IF w = "written"
    THEN JsonFile(timestamp)
    ELSE IF w = "truncated"
    THEN NotJsonFile
    ELSE file

\* The uploaded items a written watermark covers.
Covered(ids, timestamp) == {v \in ids : Instant(pub[v]) <= Instant(timestamp)}

(***************************************************************************)
(* yt2tg.py, class FeedMonitor                                             *)
(***************************************************************************)
\* verify_config (lines 50-54).
verify_config(cfg) ==
    cfg.TELEGRAM_BOT_TOKEN /\ cfg.TELEGRAM_CHANNEL_ID /\ cfg.YOUTUBE_CHANNEL_ID

\* get_new_videos (lines 77-111): a feed that fails to parse yields []; the
\* comparison of line 100 is outside the try of lines 94-98.
get_new_videos(bz, es, published_of, file) ==
    LET loaded == yt2tg_load_last_seen(file).value
    IN IF bz
       THEN [raised |-> FALSE, new_videos |-> <<>>]
       ELSE IF TypeError(es, loaded)
       THEN [raised |-> TRUE, new_videos |-> <<>>]
       ELSE [raised |-> FALSE,
             new_videos |-> yt2tg_new_videos(es, published_of, loaded)]

\* No FeedMonitor process.
FeedMonitorOff ==
    /\ fm_pc' = "off"
    /\ fm_exit_code' = <<>>
    /\ fm_bozo' = FALSE
    /\ fm_entries' = <<>>
    /\ fm_last_seen' = <<>>
    /\ fm_new_videos' = <<>>
    /\ fm_idx' = 1

\* Mutant: get_new_videos saves the newest published time it returns.
FeedMonitorStartMutantSave(cfg) ==
    /\ fm_idx' = 1
    /\ IF ~verify_config(cfg)
       THEN /\ fm_bozo' = FALSE
            /\ fm_entries' = <<>>
            /\ fm_last_seen' = <<>>
            /\ fm_new_videos' = <<>>
            /\ fm_pc' = "exited"
            /\ fm_exit_code' = <<1>>
            /\ store' = store
       ELSE \E feed \in FeedResults :
            LET got == get_new_videos(feed.bozo, feed.entries, pub, store)
                nv == got.new_videos
            IN /\ fm_bozo' = feed.bozo
               /\ fm_entries' = feed.entries
               /\ fm_last_seen' = IF feed.bozo THEN <<>>
                                  ELSE yt2tg_load_last_seen(store).value
               /\ fm_new_videos' = nv
               /\ IF got.raised
                  THEN /\ fm_pc' = "exited"
                       /\ fm_exit_code' = <<1>>
                       /\ store' = store
                  ELSE IF NothingToDo(nv)
                  THEN /\ fm_pc' = "exited"
                       /\ fm_exit_code' = <<0>>
                       /\ store' = store
                  ELSE /\ fm_pc' = "loop"
                       /\ fm_exit_code' = <<>>
                       /\ store' = JsonFile(nv[Len(nv)].published)

\* main, __init__ and the head of start (lines 325-327, 46-54, 278-288):
\* the process from its start to its first external call; the feed is
\* fetched only once verify_config has passed.  Nothing is written.  An
\* exception that leaves get_new_videos leaves start and main: exit code 1.
FeedMonitorStart(cfg) ==
    /\ fm_idx' = 1
    /\ store' = store
    /\ IF ~verify_config(cfg)
       THEN /\ fm_bozo' = FALSE
            /\ fm_entries' = <<>>
            /\ fm_last_seen' = <<>>
            /\ fm_new_videos' = <<>>
            /\ fm_pc' = "exited"
            /\ fm_exit_code' = <<1>>
       ELSE \E feed \in FeedResults :
            LET got == get_new_videos(feed.bozo, feed.entries, pub, store)
                nv == got.new_videos
            IN /\ fm_bozo' = feed.bozo
               /\ fm_entries' = feed.entries
               /\ fm_last_seen' = IF feed.bozo THEN <<>>
                                  ELSE yt2tg_load_last_seen(store).value
               /\ fm_new_videos' = nv
               /\ IF got.raised
                  THEN /\ fm_pc' = "exited"
                       /\ fm_exit_code' = <<1>>
                  ELSE IF NothingToDo(nv)
                  THEN /\ fm_pc' = "exited"
                       /\ fm_exit_code' = <<0>>
                  ELSE /\ fm_pc' = "loop"
                       /\ fm_exit_code' = <<>>

\* The process of the run, when yt2tg.py is the script run directly: the
\* run ends when the FeedMonitor process exits, with its exit code.  As the
\* child of yt-monitor.py the process leaves its parent waiting.
TopLevel ==
    IF prog = "yt2tg"
    THEN /\ pc' = IF fm_pc' = "exited" THEN "idle" ELSE "run"
         /\ exit_code' = fm_exit_code'
    ELSE UNCHANGED <<pc, exit_code>>

\* The FeedMonitor process is at an external call of its loop.
FeedMonitorAt(position) ==
    /\ fm_pc = position
    /\ prog \in {"yt2tg", "monitor"}
    /\ pc = IF prog = "yt2tg" THEN "run" ELSE "wait"

\* yt2tg.py run directly.
Yt2tgStart(cfg) ==
    /\ prog = "yt2tg"
    /\ pc = "idle"
    /\ Fresh(cfg)
    /\ FeedMonitorStart(cfg)
    /\ TopLevel
    /\ UNCHANGED <<prog, pub, feedvars, loopvars, uploaded, upvars>>

\* The end of one iteration of the for loop of start; the process exits with
\* 0 once the list is exhausted.
NextVideo ==
    /\ fm_idx' = fm_idx + 1
    /\ IF fm_idx + 1 > Len(fm_new_videos)
       THEN /\ fm_pc' = "exited"
            /\ fm_exit_code' = <<0>>
       ELSE /\ fm_pc' = "loop"
            /\ fm_exit_code' = <<>>

\* What spawn_download_terminal and the os.path.exists that follows do:
\*   "raised"   an exception left spawn_download_terminal before the download
\*              ran (input() at end of file when no terminal emulator is
\*              found, mkstemp, the inline bash): nothing catches it, the
\*              process dies with code 1
\*   "ran_raised" the download ran inline and the os.remove of the wrapper
\*              script that follows raised (line 231): the same death, after
\*              the download
\*   "nospawn"  no download ran and there is nothing to upload: it returned
\*              None (no Linux, or the terminal could not be run), or it
\*              returned the path (the exit status of the terminal and of the
\*              inline bash is not looked at) and the expected file is not
\*              there
\*   "stale_file" it returned the path though no download ran, and a file of
\*              the expected name was there already
\*   "nofile"   the download ran, and the expected file is not there
\*   "file"     the download ran, and the expected file exists
DownloadOutcomes == {"raised", "ran_raised", "nospawn", "stale_file", "nofile",
                     "file"}

\* Lines 290-305 and 318-323: spawn_download_terminal is awaited.
Yt2tgDownload(outcome) ==
    /\ FeedMonitorAt("loop")
    /\ LET id == fm_new_videos[fm_idx].id
       IN /\ IF outcome \in {"ran_raised", "nofile", "file"}
             THEN log' = Append(log, [op |-> "download", id |-> id])
             ELSE UNCHANGED log
          /\ IF outcome \in {"file", "stale_file"}
             THEN /\ fm_pc' = "upload"
                  /\ UNCHANGED <<fm_idx, fm_exit_code, run_failed>>
             ELSE /\ run_failed' = run_failed \cup {id}
                  /\ IF outcome \in {"raised", "ran_raised"}
                     THEN /\ fm_pc' = "exited"
                          /\ fm_exit_code' = <<1>>
                          /\ UNCHANGED fm_idx
                     ELSE NextVideo
    /\ TopLevel
    /\ UNCHANGED <<prog, pub, store, config, feedvars, loopvars, fm_bozo,
                   fm_entries, fm_last_seen, fm_new_videos, start_store,
                   uploaded_before, write_failed, run_ok, uploaded, upvars>>

\* save_last_seen (lines 69-75): a failed write is logged, never raised.
yt2tg_save_last_seen(file, timestamp, w) == write_last_seen(file, timestamp, w)

\* Lines 305-317 and 323: send_to_telegram is awaited; on success the
\* watermark is saved; the local file is removed either way.
Yt2tgUpload(success, w) ==
    /\ FeedMonitorAt("upload")
    /\ LET video == fm_new_videos[fm_idx]
       IN /\ log' = Append(log, [op |-> "upload", id |-> video.id])
          /\ IF success
             THEN /\ run_ok' = run_ok \cup {video.id}
                  /\ store' = yt2tg_save_last_seen(store, video.published, w)
                  /\ write_failed' = (write_failed \/ w # "written")
                  /\ uploaded' = IF w = "written"
                                 THEN uploaded \cup Covered(run_ok', video.published)
                                 ELSE uploaded
                  /\ UNCHANGED run_failed
             ELSE /\ run_failed' = run_failed \cup {video.id}
                  /\ UNCHANGED <<run_ok, store, write_failed, uploaded>>
    /\ NextVideo
    /\ TopLevel
    /\ UNCHANGED <<prog, pub, config, feedvars, loopvars, fm_bozo, fm_entries,
                   fm_last_seen, fm_new_videos, start_store, uploaded_before,
                   upvars>>

(***************************************************************************)
(* yt-monitor.py                                                           *)
(***************************************************************************)
\* Lines 25-64: configuration, feed fetch, watermark load, collect and sort.
\* The feed is fetched only once the channel identifier is known to be set.
MonitorStart(cfg) ==
    /\ prog = "monitor"
    /\ pc = "idle"
    /\ Fresh(cfg)
    /\ FeedMonitorOff
    /\ idx' = 1
    /\ IF ~cfg.YOUTUBE_CHANNEL_ID
       THEN /\ Exit(1)
            /\ bozo' = FALSE
            /\ entries' = <<>>
            /\ last_seen' = <<>>
            /\ new_videos' = <<>>
            /\ newest_timestamp' = <<>>
       ELSE \E feed \in FeedResults :
            LET loaded == monitor_load_last_seen(store)
                nv == monitor_new_videos(feed.entries, pub, loaded.value)
            IN /\ bozo' = feed.bozo
               /\ entries' = feed.entries
               /\ IF feed.bozo \/ loaded.raised
                  THEN /\ Exit(1)
                       /\ last_seen' = <<>>
                       /\ new_videos' = <<>>
                       /\ newest_timestamp' = <<>>
                  ELSE IF NothingToDo(nv)
                  THEN /\ Exit(0)
                       /\ last_seen' = loaded.value
                       /\ new_videos' = <<>>
                       /\ newest_timestamp' = <<>>
                  ELSE /\ pc' = "loop"
                       /\ exit_code' = <<>>
                       /\ last_seen' = loaded.value
                       /\ new_videos' = nv
                       /\ newest_timestamp' = loaded.value
    /\ UNCHANGED <<prog, pub, store, uploaded, upvars>>

\* What subprocess.run(["python", "yt2tg.py", video_url], check=True) does
\* when called (line 71):
\*   "FileNotFoundError"  the interpreter cannot be started: the exception
\*                        is no CalledProcessError, the process dies
\*   "spawned"            the child runs yt2tg.py (which reads no argument)
SpawnOutcomes == {"FileNotFoundError", "spawned"}

\* Lines 68-71: the head of one iteration, up to the child's first external
\* call.  The child inherits the environment and the working directory.
MonitorSpawn(outcome) ==
    /\ prog = "monitor"
    /\ pc = "loop"
    /\ IF outcome = "FileNotFoundError"
       THEN /\ Exit(1)
            /\ run_failed' = run_failed \cup {new_videos[idx].id}
            /\ UNCHANGED <<store, fmvars>>
       ELSE /\ FeedMonitorStart(config)
            /\ pc' = "wait"
            /\ UNCHANGED <<exit_code, run_failed>>
    /\ UNCHANGED <<prog, pub, config, feedvars, loopvars, start_store,
                   uploaded_before, write_failed, log, run_ok,
                   uploaded, upvars>>

\* advance: lines 76-77.
advance(current, candidate) ==
    IF current = <<>> \/ Later(candidate, current[1])
    THEN <<candidate>>
    ELSE current

\* Lines 71-77: the child has exited; a non-zero exit code is a
\* CalledProcessError, caught and logged; the running maximum advances
\* either way.
MonitorItem ==
    /\ prog = "monitor"
    /\ pc = "wait"
    /\ fm_pc = "exited"
    /\ run_failed' = IF fm_exit_code = <<0>>
                     THEN run_failed
                     ELSE run_failed \cup {new_videos[idx].id}
    /\ newest_timestamp' = advance(newest_timestamp, new_videos[idx].published)
    /\ idx' = idx + 1
    /\ pc' = IF idx + 1 > Len(new_videos) THEN "save" ELSE "loop"
    /\ FeedMonitorOff
    /\ UNCHANGED <<prog, pub, store, exit_code, config, feedvars, start_store,
                   uploaded_before, write_failed, log, run_ok,
                   uploaded, upvars>>

\* save_last_seen (lines 40-42): no exception handler.
monitor_save_last_seen(file, timestamp, w) == write_last_seen(file, timestamp, w)

\* Lines 80-83: the final write; a failed write ends the process with 1.
MonitorSave(w) ==
    /\ prog = "monitor"
    /\ pc = "save"
    /\ IF newest_timestamp # <<>>
       THEN /\ store' = monitor_save_last_seen(store, newest_timestamp[1], w)
            /\ write_failed' = (write_failed \/ w # "written")
            /\ uploaded' = IF w = "written"
                           THEN uploaded \cup Covered(run_ok, newest_timestamp[1])
                           ELSE uploaded
            /\ Exit(IF w = "written" THEN 0 ELSE 1)
       ELSE /\ UNCHANGED <<store, write_failed, uploaded>>
            /\ Exit(0)
    /\ UNCHANGED <<prog, pub, config, feedvars, loopvars, fmvars, start_store,
                   uploaded_before, log, run_ok, run_failed,
                   upvars>>

(***************************************************************************)
(* yt2tglocal.py, main                                                     *)
(***************************************************************************)
\* retries (line 208).
Retries == 3

\* What main does before its finally clause (lines 80-204); outcome is
\*   "usage"       no URL argument
\*   "noid"        no video id in the URL
\*   "noinfo"      extract_video_info returned None
\*   "dlfail"      yt-dlp returned non-zero
\*   "nomp3"       no MP3 file in the temporary directory
\*   "uploadfail"  send_audio raised a TelegramError
\*   "ok"          the audio was uploaded
\* A missing bot token raises before the temporary directory is made.
UploaderOutcomes == {"usage", "noid", "noinfo", "dlfail", "nomp3", "uploadfail", "ok"}

UploaderMain(cfg, outcome) ==
    /\ prog = "uploader"
    /\ pc = "idle"
    /\ config' = cfg
    /\ attempt' = 0
    /\ rmtree_calls' = 0
    /\ sleeps' = 0
    /\ cleanup_log' = <<>>
    /\ IF outcome \in {"usage", "noid"} \/ ~cfg.TELEGRAM_BOT_TOKEN
       THEN /\ temp_dir' = FALSE
            /\ pending' = <<1>>
            /\ Exit(1)
       ELSE /\ temp_dir' = TRUE
            /\ pending' = IF outcome = "ok" THEN <<0>> ELSE <<1>>
            /\ pc' = "cleanup"
            /\ exit_code' = <<>>
    /\ UNCHANGED <<prog, pub, store, feedvars, loopvars, fmvars, histvars>>

\* One pass of the cleanup loop (lines 209-219); outcome is what
\* shutil.rmtree does: "removed", "PermissionError", "FileNotFoundError"
\* (the directory is no longer there), or "OSError" for any other exception
\* (the directory stays).
RmtreeOutcomes == {"removed", "PermissionError", "FileNotFoundError", "OSError"}

UploaderCleanup(outcome) ==
    /\ prog = "uploader"
    /\ pc = "cleanup"
    /\ attempt < Retries
    /\ rmtree_calls' = rmtree_calls + 1
    /\ IF outcome = "removed"
       THEN /\ temp_dir' = FALSE
            /\ cleanup_log' = Append(cleanup_log, "cleaned")
            /\ Exit(pending[1])
            /\ UNCHANGED <<attempt, sleeps>>
       ELSE IF outcome = "PermissionError"
       THEN IF attempt < Retries - 1
            THEN /\ cleanup_log' = Append(cleanup_log, "retrying")
                 /\ sleeps' = sleeps + 1
                 /\ attempt' = attempt + 1
                 /\ UNCHANGED <<temp_dir, pc, exit_code>>
            ELSE /\ cleanup_log' = Append(cleanup_log, "failed")
                 /\ attempt' = attempt + 1
                 /\ Exit(pending[1])
                 /\ UNCHANGED <<temp_dir, sleeps>>
       ELSE /\ Exit(1)
            /\ temp_dir' = (outcome # "FileNotFoundError")
            /\ UNCHANGED <<attempt, sleeps, cleanup_log>>
    /\ UNCHANGED <<prog, pub, store, config, feedvars, loopvars, fmvars,
                   histvars, pending>>

\* The guard of the finally clause (line 207) when the directory made by main
\* is no longer there (removed from outside the process): the loop is
\* skipped, nothing is logged, the exit status is the pending one.
UploaderNoCleanup ==
    /\ prog = "uploader"
    /\ pc = "cleanup"
    /\ attempt = 0
    /\ rmtree_calls = 0
    /\ temp_dir' = FALSE
    /\ Exit(pending[1])
    /\ UNCHANGED <<prog, pub, store, config, feedvars, loopvars, fmvars,
                   histvars, attempt, pending, rmtree_calls, sleeps,
                   cleanup_log>>

(***************************************************************************)
(* The specification.                                                      *)
(***************************************************************************)
Next ==
    \/ \E cfg \in Configs : MonitorStart(cfg)
    \/ \E outcome \in SpawnOutcomes : MonitorSpawn(outcome)
    \/ MonitorItem
    \/ \E w \in WriteOutcomes : MonitorSave(w)
    \/ \E cfg \in Configs : Yt2tgStart(cfg)
    \/ \E outcome \in DownloadOutcomes : Yt2tgDownload(outcome)
    \/ \E success \in BOOLEAN, w \in WriteOutcomes : Yt2tgUpload(success, w)
    \/ \E cfg \in Configs, outcome \in UploaderOutcomes : UploaderMain(cfg, outcome)
    \/ \E outcome \in RmtreeOutcomes : UploaderCleanup(outcome)
    \/ UploaderNoCleanup

Spec == Init /\ [][Next]_vars

(***************************************************************************)
(* The new-item computation on its own: both scripts' start-up segments    *)
(* applied to every content of last_seen.json and every feed.  The run     *)
(* that follows a computation ends at its first external call (yt-monitor  *)
(* cannot start its child, yt2tg.py's download step raises), so the file   *)
(* is at the next computation what it was at this one.                     *)
(***************************************************************************)
\* Every content of last_seen.json: nothing, something unreadable, a
\* record written by yt2tg.py (offset kept) or yt-monitor.py (UTC), or a
\* timestamp without offset.
Files == {AbsentFile} \cup Malformed \cup
         {JsonFile(ts) : ts \in FeedStamps \cup NaiveStamps \cup
                                {astimezone_utc(s) : s \in FeedStamps}}

ComputeInit ==
    /\ prog \in {"monitor", "yt2tg"}
    /\ pub \in Channels
    /\ store \in Files
    /\ NoRunYet

ComputeNext ==
    \/ \E cfg \in Configs : MonitorStart(cfg)
    \/ MonitorSpawn("FileNotFoundError")
    \/ \E cfg \in Configs : Yt2tgStart(cfg)
    \/ Yt2tgDownload("raised")

ComputeSpec == ComputeInit /\ [][ComputeNext]_vars

(***************************************************************************)
(* Vocabulary of the properties.                                           *)
(***************************************************************************)
Monitors == {"monitor", "yt2tg"}

\* A run of the process has started (and perhaps ended) in this behaviour.
RunStarted == pc # "idle" \/ exit_code # <<>>

\* The process of the last run has exited.
RunEnded == pc = "idle" /\ exit_code # <<>>

\* The feed, watermark, list and loop position of the process of the run:
\* yt-monitor.py's own, or those of the FeedMonitor when yt2tg.py is run.
TopBozo == IF prog = "monitor" THEN bozo ELSE fm_bozo
TopEntries == IF prog = "monitor" THEN entries ELSE fm_entries
TopLastSeen == IF prog = "monitor" THEN last_seen ELSE fm_last_seen
TopNew == IF prog = "monitor" THEN new_videos ELSE fm_new_videos
TopIdx == IF prog = "monitor" THEN idx ELSE fm_idx

Ids(es) == {es[i] : i \in 1..Len(es)}
ItemIds(nv) == {nv[i].id : i \in 1..Len(nv)}

\* The run passed the program's own start-up checks and obtained its feed.
FeedRead ==
    /\ RunStarted
    /\ ~TopBozo
    /\ \/ prog = "monitor" /\ config.YOUTUBE_CHANNEL_ID
       \/ prog = "yt2tg" /\ verify_config(config)

\* The run loaded a watermark W (or none) and computed the new items from
\* it: no exception left the load or the comparison.
Computed ==
    /\ FeedRead
    /\ prog = "monitor" => start_store \notin Malformed
    /\ prog = "yt2tg" => ~TypeError(fm_entries, fm_last_seen)

\* yt-monitor.py has computed its list.
MonitorComputed == prog = "monitor" /\ Computed

\* A FeedMonitor process (yt2tg.py run directly, or the child of
\* yt-monitor.py) has computed its list.
FeedMonitorFeedRead ==
    /\ fm_pc # "off"
    /\ verify_config(config)
    /\ ~fm_bozo

FeedMonitorComputed ==
    /\ FeedMonitorFeedRead
    /\ ~TypeError(fm_entries, fm_last_seen)

\* The items of the run that were uploaded, and those a step failed for and
\* that were not uploaded in the run.
Unprocessed == run_failed \ run_ok

\* The steps that start a run, and those that start a FeedMonitor process.
StartStep == pc = "idle" /\ prog \in Monitors

FeedMonitorStartStep ==
    \/ prog = "yt2tg" /\ pc = "idle"
    \/ prog = "monitor" /\ pc = "loop"

NewItemsExact(es, ls, nv) ==
    /\ \A i \in 1..Len(nv) :
          /\ nv[i].id \in Ids(es)
          /\ Instant(nv[i].published) = Instant(pub[nv[i].id])
    /\ \A i, j \in 1..Len(nv) :
          /\ i # j => nv[i].id # nv[j].id
          /\ i < j => Instant(nv[i].published) <= Instant(nv[j].published)
    /\ \A v \in Ids(es) :
          v \in ItemIds(nv) <=> (ls = <<>> \/ Instant(pub[v]) > Instant(ls[1]))

\* The watermark a file holds: its timestamp, read as UTC when it carries no
\* offset; none when the file is absent.
FileWatermark(file) == IF file.kind = "valid" THEN file.last_published ELSE <<>>

\* C1: for every watermark W the file holds (a timestamp, or none when the
\* file is absent) and every feed, the new-item computation of either script
\* returns, and returns exactly the feed items published strictly after W
\* (all of them when W is absent), each once, in ascending order of published
\* time; an item published at W is left out.
C1_NewItemsExact ==
    /\ (prog = "monitor" /\ FeedRead /\ start_store \notin Malformed) =>
          NewItemsExact(entries, FileWatermark(start_store), new_videos)
    /\ FeedMonitorFeedRead =>
          /\ ~TypeError(fm_entries, fm_last_seen)
          /\ NewItemsExact(fm_entries, fm_last_seen, fm_new_videos)

\* What holds of the code: whenever the computation returns, the list is
\* exact for the watermark as the script loaded it (yt-monitor.py reads the
\* wall-clock time of the file as UTC, whatever its offset).
NewItemsExactAsLoaded ==
    /\ MonitorComputed => NewItemsExact(entries, last_seen, new_videos)
    /\ FeedMonitorComputed =>
          NewItemsExact(fm_entries, fm_last_seen, fm_new_videos)

\* C2: after a run (whose watermark writes all succeeded), if an item was
\* processed successfully and a later one failed, the persisted watermark is
\* the published time of the latest successfully processed item; if no item
\* succeeded, the persisted watermark is as at the start of the run.
C2_WatermarkIsLastSuccess ==
    (RunEnded /\ prog \in Monitors /\ ~write_failed) =>
       /\ (\E a \in run_ok : \E b \in Unprocessed :
              Instant(pub[b]) >= Instant(pub[a])) =>
             /\ store.kind = "valid"
             /\ \E m \in run_ok :
                   /\ \A a \in run_ok : Instant(pub[a]) <= Instant(pub[m])
                   /\ Instant(store.last_published[1]) = Instant(pub[m])
       /\ run_ok = {} => store = start_store

\* C3: the persisted watermark never moves backward: a write over a valid
\* watermark leaves a valid watermark that is not earlier; and the advance
\* step of the processing loop never yields an earlier value.
C3_NeverBackward ==
    [][/\ (store.kind = "valid" /\ store' # store) =>
             /\ store'.kind = "valid"
             /\ Instant(store'.last_published[1]) >= Instant(store.last_published[1])
       /\ (prog = "monitor" /\ pc \in {"loop", "wait"} /\ newest_timestamp # <<>>) =>
             /\ newest_timestamp' # <<>>
             /\ Instant(newest_timestamp'[1]) >= Instant(newest_timestamp[1])
       /\ (prog = "monitor" /\ pc \in {"loop", "wait"} /\ last_seen # <<>>) =>
             Instant(newest_timestamp'[1]) >= Instant(last_seen[1])]_vars

\* C4: an item uploaded in an earlier run and covered by a successful
\* watermark write is not returned as new in any later run whose computation
\* read a watermark from the file (a download or upload is only ever
\* started for an item of the returned list).
C4_NoReprocessing ==
    /\ (MonitorComputed /\ last_seen # <<>>) =>
          \A i \in 1..Len(new_videos) : new_videos[i].id \notin uploaded_before
    /\ (FeedMonitorComputed /\ fm_last_seen # <<>>) =>
          \A i \in 1..Len(fm_new_videos) :
             fm_new_videos[i].id \notin uploaded_before

\* C5: with a malformed watermark file, loading yields no watermark, the run
\* does not crash (it ends with code 1 only if a later step failed), and
\* every fetched feed item is treated as new.
C5_MalformedIsAbsent ==
    (RunStarted /\ prog \in Monitors /\ config = FullConfig /\ ~TopBozo
       /\ start_store \in Malformed) =>
       /\ exit_code = <<1>> => (run_failed # {} \/ write_failed)
       /\ TopLastSeen = <<>>
       /\ ItemIds(TopNew) = Ids(TopEntries)

\* The feed of the run holds no new item: it has no entry, or the store
\* held a watermark at the start and no entry is published after it.
NoNewItems ==
    \/ TopEntries = <<>>
    \/ /\ start_store.kind = "valid"
       /\ \A v \in Ids(TopEntries) :
             Instant(pub[v]) <= Instant(start_store.last_published[1])

\* C6: when the new-item set is empty (zero feed entries, or no entry newer
\* than the watermark), the run is a no-op: no download or upload step is
\* started, the watermark file keeps its content, and the exit code is 0.
C6_EmptyIsNoOp ==
    (FeedRead /\ NoNewItems) =>
       /\ RunEnded
       /\ exit_code = <<0>>
       /\ log = <<>>
       /\ fm_pc \in {"off", "exited"}
       /\ store = start_store

\* What holds of the code: the same, for the runs in which the computation
\* returned (the load raises in yt-monitor.py on a malformed file, the
\* comparison raises in yt2tg.py on a timestamp without offset).
EmptyIsNoOpOnceLoaded ==
    (Computed /\ NoNewItems) =>
       /\ RunEnded
       /\ exit_code = <<0>>
       /\ log = <<>>
       /\ fm_pc \in {"off", "exited"}
       /\ store = start_store

\* C7: the exit code is 1 when a required option (feed channel identifier,
\* bot token, target channel identifier) is missing or the feed fails to
\* parse, and then no item is processed and the watermark is not written;
\* it is 0 when there is nothing to do or the run succeeds.
C7_ExitCodes ==
    (RunEnded /\ prog \in Monitors) =>
       /\ (config # FullConfig \/ TopBozo) =>
             /\ exit_code = <<1>>
             /\ log = <<>>
             /\ store = start_store
       /\ (Computed /\ config = FullConfig /\ run_failed = {} /\ ~write_failed) =>
             exit_code = <<0>>

\* C8: a failed item does not stop the run: the loop of a process is left
\* only when every item of its list has been attempted, so each item after
\* a failed one is attempted.
C8_FailureContinues ==
    /\ (prog \in Monitors /\ RunEnded /\ Computed) => TopIdx > Len(TopNew)
    /\ (FeedMonitorComputed /\ fm_pc = "exited") => fm_idx > Len(fm_new_videos)

\* C9: the cleanup is attempted at most 3 times with a 1 second sleep
\* between attempts, stops at the first successful removal, and when every
\* attempt fails the failure is logged and the exit status is the one the
\* run would have had.
C9_CleanupRetried ==
    (prog = "uploader") =>
       /\ rmtree_calls <= Retries
       /\ sleeps <= Retries - 1
       /\ (RunEnded /\ ~temp_dir /\ rmtree_calls > 0) =>
             /\ cleanup_log # <<>>
             /\ cleanup_log[Len(cleanup_log)] = "cleaned"
             /\ exit_code = pending
       /\ (RunEnded /\ temp_dir) =>
             /\ rmtree_calls = Retries
             /\ sleeps = Retries - 1
             /\ cleanup_log # <<>>
             /\ cleanup_log[Len(cleanup_log)] = "failed"
             /\ exit_code = pending

\* C10: the steps of a run are started one item at a time in ascending order
\* of published time: no step follows a step of an item published later, and
\* the steps of an item are its download and then its upload, each at most
\* once, with no step of another item between them.
C10_OneAtATimeInOrder ==
    prog \in Monitors =>
       /\ \A p, q \in 1..Len(log) :
             p < q => Instant(pub[log[p].id]) <= Instant(pub[log[q].id])
       /\ \A p, q \in 1..Len(log) :
             (p < q /\ log[p].id = log[q].id) =>
                /\ q = p + 1
                /\ log[p].op = "download"
                /\ log[q].op = "upload"

\* save_last_seen was called in the run: after an upload (yt2tg.py line
\* 310), or at the end of yt-monitor.py's loop (line 81).
SaveCalled ==
    \/ run_ok # {}
    \/ prog = "monitor" /\ new_videos # <<>> /\ idx > Len(new_videos)

\* C11: the new-item computation of either script does not modify the
\* watermark file, and it is idempotent: run again over the same feed
\* entries, no step other than the computation having written the file in
\* between, it yields the same sequence.
C11_ComputationIdempotent ==
    [][/\ (StartStep \/ FeedMonitorStartStep) => store' = store
       /\ (StartStep /\ Computed /\ Computed' /\ TopEntries' = TopEntries
             /\ ~SaveCalled) =>
                TopNew' = TopNew]_vars

\* A finished run that computed a list of two items and made no call of
\* save_last_seen, from which the computation over the same entries can be
\* taken again and yields the same list.
C11_Witness ==
    /\ RunEnded
    /\ Computed
    /\ ~SaveCalled
    /\ Len(TopNew) >= 2
    /\ ENABLED (/\ ComputeNext
                /\ TopEntries' = TopEntries
                /\ TopNew' = TopNew
                /\ pc' # "idle")

\* C12: no feed item is lost behind the watermark: an item whose download
\* or upload failed in a run (and that was not uploaded in it) is returned
\* as new again by the next run over the same feed, also when a later item
\* or an item with the same published time succeeded in that run.
C12_FailedItemReturnedAgain ==
    [][(StartStep /\ RunEnded /\ Computed /\ Computed' /\ TopEntries' = TopEntries) =>
          \A v \in Unprocessed \cap Ids(TopEntries) : v \in ItemIds(TopNew')]_vars

====
